---- MODULE Spec2Model ----
(***************************************************************************)
(* BESS Modbus simulator (src/server.py): the int32 <-> register codec,    *)
(* the sparse datastore shared by the Modbus request handlers and the      *)
(* updater coroutine, and the updater's synchronization tick.              *)
(*                                                                         *)
(* The updater and the request handlers are coroutines of one asyncio      *)
(* event loop (run_server, lines 193-201): a coroutine runs until it       *)
(* awaits.  The only await of the updater is asyncio.sleep(1) (line 154),  *)
(* so the position of the updater is modelled by pc, one value per         *)
(* statement of the tick, and a request is served only while the updater   *)
(* is suspended in its sleep.                                              *)
(***************************************************************************)
EXTENDS Integers, Sequences, FiniteSets, TLC

VARIABLES
    hr,                \* holding-register block: address -> cell
    ir,                \* input-register block:   address -> cell
    soc_value,         \* global soc_value (line 97)
    watchdog_timeout,  \* global watchdog_timeout (line 98)
    pc,                \* statement the updater is at
    local,             \* updater locals cmd_lo, cmd_hi, ..., wd_hi
    warning,           \* the last watchdog check logged "Watchdog timeout!"
    now,               \* floor(time.time() % 60) as the updater will read it
    ticks,             \* completed ticks (history, counted up to TicksCap)
    history,           \* zero_run: latest consecutive ticks that read the
                       \* watchdog as zero; unrefreshed: latest consecutive
                       \* ticks with no client write to the watchdog pair
                       \* (counted up to WatchdogLimit + 1); errors: ticks
                       \* ended by the except clause; start: soc_value and
                       \* watchdog_timeout when the current tick started
    nreq,              \* requests served so far
    req, resp,         \* the last request served and its response
    codec              \* codec harness: the arguments and results of
                       \* split_int32_be and merge_int32_be

vars == <<hr, ir, soc_value, watchdog_timeout, pc, local, warning, now, ticks,
          history, nreq, req, resp, codec>>

----------------------------------------------------------------------------
(* Bounds of the model *)

MaxTicks       == 3    \* completed ticks, main specification
MaxRequests    == 3    \* client requests served, main specification
MaxTicksWd     == 13   \* completed ticks, watchdog specification
MaxRequestsWd  == 2    \* client requests served, watchdog specification
MaxTicksClock  == 61   \* completed ticks, clock specification
MaxRequestsSoc == 1    \* client requests served, long-run specification
MaxRequestsAddr == 2   \* client requests served, addressing specification
TicksCap       == 61   \* the history counter ticks stops counting here
MaxWatchdogTimeout == 13  \* long-run specification: no further tick once
                          \* watchdog_timeout is here
MaxTicksErr    == 2    \* completed ticks, error specification
MaxErrors      == 2    \* failed ticks, error specification
MaxRequestsErr == 1    \* client requests served, error specification
MaxTicksFair   == 3    \* completed ticks, fair specification
MaxRequestsFair == 2   \* client requests served, fair specification

----------------------------------------------------------------------------
(* Codec (lines 23-35) *)

TwoTo16  == 65536            \* 1 << 16
WordMask == 65535            \* 0xFFFF

\* Mutant of split_int32_be: the high word is not masked.
split_int32_be_unmasked(value) ==
    <<value \div TwoTo16, value % (WordMask + 1)>>

\* value >> 16 and value & 0xFFFF on Python integers: floor division and
\* the non-negative remainder, also for negative values.
split_int32_be(value) ==
    LET hi == (value \div TwoTo16) % (WordMask + 1)
        lo == value % (WordMask + 1)
    IN  <<hi, lo>>

\* Mutant of merge_int32_be: the sign conversion takes off 2^31.
merge_int32_be_half(hi, lo) ==
    IF (hi - 32768) * TwoTo16 + lo >= 0
    THEN (hi - 32768) * TwoTo16 + lo
    ELSE hi * TwoTo16 + lo

\* Mutant of merge_int32_be: the words are taken low word first.
merge_int32_be_swapped(hi, lo) ==
    IF (lo - 32768) * TwoTo16 + hi >= 0
    THEN (lo - TwoTo16) * TwoTo16 + hi
    ELSE lo * TwoTo16 + hi

\* (hi << 16) + lo, minus 0x100000000 when above 0x7FFFFFFF.  The unsigned
\* sum does not fit the 32-bit integers of the model checker when
\* hi >= 0x8000, so both sides of the comparison are lowered by 2^31
\* (result > 0x7FFFFFFF  iff  result - 2^31 >= 0) and the 2^32 is taken off
\* the high word before the sum ((hi - 2^16) << 16 = (hi << 16) - 2^32).
merge_int32_be(hi, lo) ==
    IF (hi - 32768) * TwoTo16 + lo >= 0
    THEN (hi - TwoTo16) * TwoTo16 + lo
    ELSE hi * TwoTo16 + lo

----------------------------------------------------------------------------
(* Register map (lines 43-65) *)

WATCHDOG       == 53248    \* 0xd000
SYSTEM_COMMAND == 53250    \* 0xd002
P_COMMAND      == 53252    \* 0xd004
Q_COMMAND      == 53254    \* 0xd006
CLEAR_FAULTS   == 53258    \* 0xd00a
SYSTEM_STATE   == 9474     \* 0x2502
SOC            == 9476     \* 0x2504
P_MEASURED     == 9496     \* 0x2518
Q_MEASURED     == 9498     \* 0x251a

HoldingPairs == {WATCHDOG, SYSTEM_COMMAND, P_COMMAND, Q_COMMAND, CLEAR_FAULTS}
InputPairs   == {SYSTEM_STATE, SOC, P_MEASURED, Q_MEASURED}

\* The keys of the dict `values` of BessDataBlock.__init__.
BlockAddresses ==
    UNION {{a, a + 1} : a \in HoldingPairs \cup InputPairs}

\* The initial value of each key: 5000 at 0x2504, 0 elsewhere.
InitialValue(a) == IF a = SOC THEN 5000 ELSE 0

\* A cell is the 16-bit value of a register together with its origin: the
\* number of the client request that wrote it (0: the constructor, -1: the
\* updater's soc simulation) and whether that request wrote both registers
\* of the pair the cell belongs to.
Cell(v, id, whole) == [v |-> v, id |-> id, whole |-> whole]

\* BessDataBlock(): every bank is built from the same dict (lines 73-79).
BessDataBlock == [a \in BlockAddresses |-> Cell(InitialValue(a), 0, TRUE)]

----------------------------------------------------------------------------
(* Datastore access (ModbusSlaveContext with zero_mode=True, lines 73-79:   *)
(* the address is used as given; function codes 3, 6 and 16 select the     *)
(* holding block, function code 4 the input block).                        *)

\* ModbusSparseDataBlock.validate: every address of the range is a key.
validate(block, address, count) ==
    /\ count > 0
    /\ \A a \in address .. (address + count - 1) : a \in DOMAIN block

\* getValues(fc, address, count=1)[0]
getValues(block, address) == block[address]

\* setValues(fc, address, cells): consecutive registers from address on.
setValues(block, address, cells) ==
    [a \in DOMAIN block |->
        IF a \in address .. (address + Len(cells) - 1)
        THEN cells[a - address + 1]
        ELSE block[a]]

\* The two cells written by setValues(4, addr, split_int32_be(merge(a, b))):
\* the words of the re-encoded value, each with the origin of the word read
\* at the same position.
Mirror(a, b) ==
    LET w == split_int32_be(merge_int32_be(a.v, b.v))
    IN  <<Cell(w[1], a.id, a.whole), Cell(w[2], b.id, b.whole)>>

----------------------------------------------------------------------------
(* Initial state: the module-level statements of server.py have run and    *)
(* run_server has created the updater task, which runs its first tick at   *)
(* the first await of the server start-up, before any request is served.   *)

NoCell == Cell(0, 0, TRUE)
NoRequest  == [fc |-> 0, address |-> 0, count |-> 0, values |-> <<>>]
NoResponse == [kind |-> "none", words |-> <<>>]

InitSystem(phases) ==
    /\ hr = BessDataBlock
    /\ ir = BessDataBlock
    /\ soc_value = 5000
    /\ watchdog_timeout = 0
    /\ pc = "L112"
    /\ local = [cmd_lo |-> NoCell, cmd_hi |-> NoCell,
                p_cmd_lo |-> NoCell, p_cmd_hi |-> NoCell,
                q_cmd_lo |-> NoCell, q_cmd_hi |-> NoCell,
                wd_lo |-> NoCell, wd_hi |-> NoCell]
    /\ warning = FALSE
    /\ now \in phases
    /\ ticks = 0
    /\ history = [zero_run |-> 0, unrefreshed |-> 0, errors |-> 0,
                  start |-> [soc |-> 5000, wd |-> 0]]
    /\ nreq = 0
    /\ req = NoRequest
    /\ resp = NoResponse

InitWith(phases, inputs) ==
    /\ InitSystem(phases)
    /\ codec \in {[v |-> v, words |-> <<>>, result |-> 0, step |-> "value"] :
                  v \in inputs}

----------------------------------------------------------------------------
(* The updater (lines 103-154), one action per statement of the tick. *)

\* A statement that reads one register into a local.
Read(at, next, name, address) ==
    /\ pc = at
    /\ pc' = next
    /\ local' = [local EXCEPT ![name] = getValues(hr, address)]
    /\ UNCHANGED <<hr, ir, soc_value, watchdog_timeout, warning, now, ticks,
                   history, nreq, req, resp, codec>>

\* Mutant of Write: the state pair is written with function code 3, into the
\* holding bank.
Write_ToHolding(at, next, a, b, address) ==
    /\ pc = at
    /\ pc' = next
    /\ hr' = setValues(hr, address, Mirror(local[a], local[b]))
    /\ UNCHANGED <<ir, soc_value, watchdog_timeout, local, warning, now,
                   ticks, history, nreq, req, resp, codec>>

\* Mutant of Write: no state pair is written while the watchdog warning is
\* raised.
Write_HeldInTimeout(at, next, a, b, address) ==
    /\ pc = at
    /\ pc' = next
    /\ ir' = IF warning THEN ir
             ELSE setValues(ir, address, Mirror(local[a], local[b]))
    /\ UNCHANGED <<hr, soc_value, watchdog_timeout, local, warning, now,
                   ticks, history, nreq, req, resp, codec>>

\* merge_int32_be of two locals, split_int32_be, setValues(4, address, ...).
Write(at, next, a, b, address) ==
    /\ pc = at
    /\ pc' = next
    /\ ir' = setValues(ir, address, Mirror(local[a], local[b]))
    /\ UNCHANGED <<hr, soc_value, watchdog_timeout, local, warning, now,
                   ticks, history, nreq, req, resp, codec>>

ReadCmdLo == Read("L112", "L113", "cmd_lo", SYSTEM_COMMAND)
ReadCmdHi == Read("L113", "L114", "cmd_hi", SYSTEM_COMMAND + 1)
WriteState == Write("L114", "L118", "cmd_lo", "cmd_hi", SYSTEM_STATE)

ReadPLo == Read("L118", "L119", "p_cmd_lo", P_COMMAND)
ReadPHi == Read("L119", "L120", "p_cmd_hi", P_COMMAND + 1)
WriteP  == Write("L120", "L124", "p_cmd_lo", "p_cmd_hi", P_MEASURED)

ReadQLo == Read("L124", "L125", "q_cmd_lo", Q_COMMAND)
ReadQHi == Read("L125", "L126", "q_cmd_hi", Q_COMMAND + 1)
WriteQ  == Write("L126", "L130", "q_cmd_lo", "q_cmd_hi", Q_MEASURED)

ReadWdLo == Read("L130", "L131", "wd_lo", WATCHDOG)
ReadWdHi == Read("L131", "L132", "wd_hi", WATCHDOG + 1)

Max(a, b) == IF a >= b THEN a ELSE b
Min(a, b) == IF a <= b THEN a ELSE b

WatchdogLimit == 10

\* Mutant of WatchdogCount: a nonzero watchdog stops the count without
\* resetting it.
WatchdogCount_NoReset(watchdog_32, counter) ==
    IF watchdog_32 # 0 THEN counter ELSE counter + 1

\* Lines 135-139: the counter after a tick that read watchdog_32.
WatchdogCount(watchdog_32, counter) ==
    IF watchdog_32 # 0 THEN 0 ELSE counter + 1

\* Mutant of TimedOut: the warning starts one tick early.
TimedOut_early(watchdog_32, counter) ==
    watchdog_32 = 0 /\ counter >= WatchdogLimit

\* Lines 135-141: log.warning runs in the else branch, when the incremented
\* counter is above 10.
TimedOut(watchdog_32, counter) ==
    watchdog_32 = 0 /\ counter > WatchdogLimit

\* Lines 132-141.
CheckWatchdog ==
    /\ pc = "L132"
    /\ pc' = "L144"
    /\ LET watchdog_32 == merge_int32_be(local.wd_lo.v, local.wd_hi.v)
       IN  /\ watchdog_timeout' = WatchdogCount(watchdog_32, watchdog_timeout)
           /\ warning' = TimedOut(watchdog_32, watchdog_timeout')
           /\ history' =
                 [history EXCEPT
                    !.zero_run = IF local.wd_lo.v = 0 /\ local.wd_hi.v = 0
                                 THEN history.zero_run + 1 ELSE 0,
                    !.unrefreshed = Min(history.unrefreshed + 1,
                                        WatchdogLimit + 1)]
    /\ UNCHANGED <<hr, ir, soc_value, local, now, ticks, nreq, req, resp,
                   codec>>

SocMin == 1000
SocMax == 9500
HalfCycle == 30

\* Mutant of soc_direction: the boundary second belongs to the wrong half.
soc_direction_inclusive(t) == IF t <= HalfCycle THEN -1 ELSE 1

\* Line 145: -1 if (time.time() % 60) < 30 else 1
soc_direction(t) == IF t < HalfCycle THEN -1 ELSE 1

\* Mutant of ClampedSoc: the lower limit is not applied.
ClampedSoc_NoFloor(soc, t) == Min(SocMax, soc + soc_direction(t))

\* Mutant of ClampedSoc: the upper limit is not applied.
ClampedSoc_NoCeiling(soc, t) == Max(SocMin, soc + soc_direction(t))

\* Lines 146-147
ClampedSoc(soc, t) == Max(SocMin, Min(SocMax, soc + soc_direction(t)))

\* Lines 144-147: the new soc_value.
ComputeSoc ==
    /\ pc = "L144"
    /\ pc' = "L148"
    /\ soc_value' = ClampedSoc(soc_value, now)
    /\ UNCHANGED <<hr, ir, watchdog_timeout, local, warning, now, ticks,
                   history, nreq, req, resp, codec>>

\* The values of soc_value and watchdog_timeout, as the next tick finds them.
LoopState == [soc |-> soc_value, wd |-> watchdog_timeout]

\* Line 148; the tick is complete when the soc registers are written.
WriteSoc ==
    /\ pc = "L148"
    /\ pc' = "L154"
    /\ LET w == split_int32_be(soc_value)
       IN  ir' = setValues(ir, SOC, <<Cell(w[1], -1, TRUE), Cell(w[2], -1, TRUE)>>)
    /\ ticks' = Min(ticks + 1, TicksCap)
    /\ history' = [history EXCEPT !.start = LoopState]
    /\ UNCHANGED <<hr, soc_value, watchdog_timeout, local, warning, now, nreq,
                   req, resp, codec>>

Cycle == 60

\* Mutant of Sleep: the loop wakes up only when a request has been served
\* since the last tick.
Sleep_OnRequest(advances, maxTicks) ==
    /\ pc = "L154"
    /\ ticks < maxTicks
    /\ nreq > ticks
    /\ pc' = "L112"
    /\ \E d \in advances : now' = (now + d) % Cycle
    /\ UNCHANGED <<hr, ir, soc_value, watchdog_timeout, local, warning, ticks,
                   history, nreq, req, resp, codec>>

\* Line 154: asyncio.sleep(1) returns after `advance` seconds of wall clock
\* and the loop starts the next tick.
Sleep(advances, maxTicks) ==
    /\ pc = "L154"
    /\ ticks < maxTicks
    /\ pc' = "L112"
    /\ \E d \in advances : now' = (now + d) % Cycle
    /\ UNCHANGED <<hr, ir, soc_value, watchdog_timeout, local, warning, ticks,
                   history, nreq, req, resp, codec>>

Tick ==
    \/ ReadCmdLo \/ ReadCmdHi \/ WriteState
    \/ ReadPLo \/ ReadPHi \/ WriteP
    \/ ReadQLo \/ ReadQHi \/ WriteQ
    \/ ReadWdLo \/ ReadWdHi \/ CheckWatchdog
    \/ ComputeSoc \/ WriteSoc

\* The statements of the try block that call the datastore (getValues at
\* lines 112-131, setValues at lines 115, 121, 127 and 148).
DatastoreCalls ==
    {"L112", "L113", "L114", "L118", "L119", "L120", "L124", "L125", "L126",
     "L130", "L131", "L148"}

\* Line 151: a datastore call of the try block raises an Exception; control
\* leaves the try block before the call has had any effect.
Raise(maxErrors) ==
    /\ pc \in DatastoreCalls
    /\ history.errors < maxErrors
    /\ pc' = "L152"
    /\ history' = [history EXCEPT !.errors = history.errors + 1]
    /\ UNCHANGED <<hr, ir, soc_value, watchdog_timeout, local, warning, now,
                   ticks, nreq, req, resp, codec>>

\* Mutant of Except: the handler lets the exception end the coroutine.
Except_Reraise ==
    /\ pc = "L152"
    /\ pc' = "done"
    /\ history' = [history EXCEPT !.start = LoopState]
    /\ UNCHANGED <<hr, ir, soc_value, watchdog_timeout, local, warning, now,
                   ticks, nreq, req, resp, codec>>

\* Lines 151-152: the except clause logs the error and falls through to the
\* sleep of line 154.
Except ==
    /\ pc = "L152"
    /\ pc' = "L154"
    /\ history' = [history EXCEPT !.start = LoopState]
    /\ UNCHANGED <<hr, ir, soc_value, watchdog_timeout, local, warning, now,
                   ticks, nreq, req, resp, codec>>

----------------------------------------------------------------------------
(* Client requests, served by the Modbus/TCP server started at lines       *)
(* 197-201 on the datastore `context` (line 81).                           *)

Request(fc, address, values, count) ==
    [fc |-> fc, address |-> address, count |-> count, values |-> values]

ReadHolding(address, count)  == Request(3, address, <<>>, count)
ReadInput(address, count)    == Request(4, address, <<>>, count)
WriteSingle(address, value)  == Request(6, address, <<value>>, 1)
WriteMultiple(address, values) == Request(16, address, values, Len(values))

IsWrite(r) == r.fc \in {6, 16}

Ok(words)       == [kind |-> "ok", words |-> words]
IllegalAddress  == [kind |-> "illegal_address", words |-> <<>>]

\* The first address of the 32-bit pair a register belongs to.
PairOf(a) == CHOOSE b \in HoldingPairs \cup InputPairs : a \in {b, b + 1}

\* The cells a write request stores: its words, numbered with the request.
WrittenCells(r, id) ==
    LET last == r.address + r.count - 1
    IN  [i \in 1 .. r.count |->
            LET a == r.address + i - 1
            IN  Cell(r.values[i], id,
                     PairOf(a) >= r.address /\ PairOf(a) + 1 <= last)]

\* Mutant of UpdaterSuspended: a request is served at any statement of the
\* tick, as if the updater ran in a thread of its own.
UpdaterPreempted == TRUE

\* The requests are served by coroutines of the event loop that runs the
\* updater: one starts only while the updater is suspended at line 154.
UpdaterSuspended == pc = "L154"

\* Mutant of Serve: the store is built with one block for both banks, so a
\* write to a holding register is a write to the input register too.
Serve_SharedBlock(r) ==
    LET block == IF r.fc = 4 THEN ir ELSE hr
        valid == validate(block, r.address, r.count)
    IN  /\ req' = r
        /\ nreq' = nreq + 1
        /\ resp' = IF ~valid THEN IllegalAddress
                   ELSE IF IsWrite(r) THEN Ok(r.values)
                   ELSE Ok([i \in 1 .. r.count |->
                               getValues(block, r.address + i - 1).v])
        /\ hr' = IF valid /\ IsWrite(r)
                 THEN setValues(hr, r.address, WrittenCells(r, nreq + 1))
                 ELSE hr
        /\ ir' = IF valid /\ IsWrite(r)
                 THEN setValues(ir, r.address, WrittenCells(r, nreq + 1))
                 ELSE ir
        /\ history' =
             IF valid /\ IsWrite(r)
                /\ \E a \in r.address .. (r.address + r.count - 1) :
                       a \in {WATCHDOG, WATCHDOG + 1}
             THEN [history EXCEPT !.unrefreshed = 0]
             ELSE history
        /\ UNCHANGED <<soc_value, watchdog_timeout, pc, local, warning,
                       now, ticks, codec>>

\* One request, from its validation to its response.
Serve(r) ==
    LET block == IF r.fc = 4 THEN ir ELSE hr
        valid == validate(block, r.address, r.count)
    IN  /\ req' = r
        /\ nreq' = nreq + 1
        /\ resp' = IF ~valid THEN IllegalAddress
                   ELSE IF IsWrite(r) THEN Ok(r.values)
                   ELSE Ok([i \in 1 .. r.count |->
                               getValues(block, r.address + i - 1).v])
        /\ hr' = IF valid /\ IsWrite(r)
                 THEN setValues(hr, r.address, WrittenCells(r, nreq + 1))
                 ELSE hr
        /\ history' =
             IF valid /\ IsWrite(r)
                /\ \E a \in r.address .. (r.address + r.count - 1) :
                       a \in {WATCHDOG, WATCHDOG + 1}
             THEN [history EXCEPT !.unrefreshed = 0]
             ELSE history
        /\ UNCHANGED <<ir, soc_value, watchdog_timeout, pc, local, warning,
                       now, ticks, codec>>

ClientRequest(requests, maxReq) ==
    /\ UpdaterSuspended
    /\ nreq < maxReq
    /\ \E r \in requests : Serve(r)

----------------------------------------------------------------------------
(* Main specification: clients write the command pairs, with single and    *)
(* with multiple register writes, between ticks one second apart.          *)

StartPhases == {29}

Requests ==
    {WriteSingle(a, v) : a \in {P_COMMAND, P_COMMAND + 1, SYSTEM_COMMAND},
                         v \in {1, 65535}}
    \cup {WriteMultiple(a, w) : a \in {SYSTEM_COMMAND, P_COMMAND, Q_COMMAND},
                                w \in {<<65535, 65535>>, <<32768, 1>>}}
    \cup {WriteMultiple(P_COMMAND + 1, <<1, 32768>>),
          ReadHolding(P_COMMAND, 2), ReadInput(P_MEASURED, 2),
          ReadHolding(SYSTEM_COMMAND, 2)}

Init == InitWith(StartPhases, {0})

Next ==
    \/ Tick
    \/ Sleep({1}, MaxTicks)
    \/ ClientRequest(Requests, MaxRequests)

Spec == Init /\ [][Next]_vars

----------------------------------------------------------------------------
(* Long-run specification: any number of ticks.  time.time() is the wall   *)
(* clock: between two ticks it advances by the second slept or more (the   *)
(* loop is delayed, the clock is set); advances of half a cycle and of a   *)
(* whole cycle let either direction follow either direction at every tick. *)
(* A client may refresh the watchdog and write the holding bank at the     *)
(* address of soc.                                                         *)

RequestsLong ==
    {WriteSingle(WATCHDOG + 1, 1), WriteMultiple(SOC, <<0, 7>>)}

LongSleep ==
    /\ watchdog_timeout < MaxWatchdogTimeout
    /\ Sleep({HalfCycle, Cycle}, TicksCap + 1)

NextLong ==
    \/ Tick
    \/ LongSleep
    \/ ClientRequest(RequestsLong, MaxRequestsSoc)

InitLong == InitWith({0}, {0})

SpecLong == InitLong /\ [][NextLong]_vars

----------------------------------------------------------------------------
(* Clock specification: no client; the process starts at any second of the *)
(* minute and the wall clock advances by exactly the second slept.         *)

ClockStartPhases == {0, 29, 30, 45}

NextClock ==
    \/ Tick
    \/ Sleep({1}, MaxTicksClock)

InitClock == InitWith(ClockStartPhases, {0})

SpecClock == InitClock /\ [][NextClock]_vars

----------------------------------------------------------------------------
(* Watchdog specification: a client writes the watchdog pair, zero or not, *)
(* or a command, between ticks one second apart.                           *)

RequestsWd ==
    {WriteSingle(WATCHDOG + 1, v) : v \in {0, 1}}
    \cup {WriteSingle(WATCHDOG, 32768), WriteMultiple(WATCHDOG, <<0, 0>>),
          ReadHolding(WATCHDOG, 2), WriteMultiple(P_COMMAND, <<65535, 65535>>)}

NextWd ==
    \/ Tick
    \/ Sleep({1}, MaxTicksWd)
    \/ ClientRequest(RequestsWd, MaxRequestsWd)

InitWd == InitWith({0}, {0})

SpecWd == InitWd /\ [][NextWd]_vars

----------------------------------------------------------------------------
(* Addressing specification: reads and writes at addresses in and out of   *)
(* the blocks, in both banks.                                              *)

ProbedAddresses ==
    {0, WATCHDOG, Q_COMMAND + 1, Q_COMMAND + 2, Q_COMMAND + 3, SOC,
     Q_MEASURED + 1}

RequestsAddr ==
    {ReadHolding(a, n) : a \in ProbedAddresses, n \in {1, 2}}
    \cup {ReadInput(a, n) : a \in ProbedAddresses, n \in {1, 2}}
    \cup {WriteSingle(a, 1) : a \in ProbedAddresses}
    \cup {WriteMultiple(a, <<1, 2>>) : a \in ProbedAddresses}

NextAddr ==
    \/ Tick
    \/ Sleep({1}, MaxTicks)
    \/ ClientRequest(RequestsAddr, MaxRequestsAddr)

InitAddr == InitWith(StartPhases, {0})

SpecAddr == InitAddr /\ [][NextAddr]_vars

----------------------------------------------------------------------------
(* Codec specification: split_int32_be, then merge_int32_be of its words,  *)
(* on signed 32-bit values around every boundary of the encoding.          *)

MaxInt32 == 2147483647      \* 0x7FFFFFFF
MinInt32 == -MaxInt32 - 1

CodecInputs ==
    {MinInt32, MinInt32 + 1, MinInt32 + 2, MaxInt32 - 2, MaxInt32 - 1, MaxInt32}
    \cup (-65538 .. -65534) \cup (65534 .. 65538)
    \cup (-32770 .. -32766) \cup (32766 .. 32770)
    \cup (-3 .. 3) \cup {-5000, 5000, -327680000, 327680000}

CodecSplit ==
    /\ codec.step = "value"
    /\ codec' = [codec EXCEPT !.words = split_int32_be(codec.v),
                              !.step = "split"]
    /\ UNCHANGED <<hr, ir, soc_value, watchdog_timeout, pc, local, warning,
                   now, ticks, history, nreq, req, resp>>

CodecMerge ==
    /\ codec.step = "split"
    /\ codec' = [codec EXCEPT
                    !.result = merge_int32_be(codec.words[1], codec.words[2]),
                    !.step = "merged"]
    /\ UNCHANGED <<hr, ir, soc_value, watchdog_timeout, pc, local, warning,
                   now, ticks, history, nreq, req, resp>>

NextCodec == CodecSplit \/ CodecMerge

InitCodec == InitWith({0}, CodecInputs)

SpecCodec == InitCodec /\ [][NextCodec]_vars

----------------------------------------------------------------------------
(* Word specification: merge_int32_be of two words, then split_int32_be of *)
(* the result, on words around every boundary of the encoding.             *)

WordInputs == {0, 1, 2, 5000, 32767, 32768, 32769, 65534, 65535}

WordsMerge ==
    /\ codec.step = "words"
    /\ codec' = [codec EXCEPT
                    !.result = merge_int32_be(codec.words[1], codec.words[2]),
                    !.step = "merged"]
    /\ UNCHANGED <<hr, ir, soc_value, watchdog_timeout, pc, local, warning,
                   now, ticks, history, nreq, req, resp>>

WordsSplit ==
    /\ codec.step = "merged"
    /\ codec' = [codec EXCEPT !.back = split_int32_be(codec.result),
                              !.step = "split"]
    /\ UNCHANGED <<hr, ir, soc_value, watchdog_timeout, pc, local, warning,
                   now, ticks, history, nreq, req, resp>>

NextWords == WordsMerge \/ WordsSplit

InitWords ==
    /\ InitSystem({0})
    /\ codec \in {[words |-> <<hi, lo>>, result |-> 0, back |-> <<>>,
                    step |-> "words"] : hi \in WordInputs, lo \in WordInputs}

SpecWords == InitWords /\ [][NextWords]_vars

----------------------------------------------------------------------------
(* Fair specification: the updater is a task of the event loop (line 194), *)
(* which runs it whenever it is ready, and asyncio.sleep(1) returns after  *)
(* a second whatever the clients do: a step of the updater that stays      *)
(* enabled is eventually taken.  Nothing is assumed of the clients.        *)

CommandWords == {<<65535, 65535>>, <<32768, 1>>, <<0, 7>>}

RequestsFair ==
    {WriteMultiple(a, w) : a \in {SYSTEM_COMMAND, P_COMMAND, Q_COMMAND},
                           w \in CommandWords}

UpdaterFair == Tick \/ Sleep({1}, MaxTicksFair)

NextFair ==
    \/ Tick
    \/ Sleep({1}, MaxTicksFair)
    \/ ClientRequest(RequestsFair, MaxRequestsFair)

InitFair == InitWith(StartPhases, {0})

SpecFair == InitFair /\ [][NextFair]_vars /\ WF_vars(UpdaterFair)

----------------------------------------------------------------------------
(* Error specification: datastore calls of the tick may raise. The updater *)
(* is a task of the event loop (line 194): the loop runs it whenever it is *)
(* ready, and asyncio.sleep(1) returns, so each of its steps that stays    *)
(* enabled is eventually taken.                                            *)

RequestsErr ==
    {WriteMultiple(P_COMMAND, <<65535, 65535>>), WriteSingle(WATCHDOG + 1, 1)}

UpdaterErr == Tick \/ Except \/ Sleep({1}, MaxTicksErr)

NextErr ==
    \/ Tick
    \/ Raise(MaxErrors)
    \/ Except
    \/ Sleep({1}, MaxTicksErr)
    \/ ClientRequest(RequestsErr, MaxRequestsErr)

InitErr == InitWith({0}, {0})

SpecErr == InitErr /\ [][NextErr]_vars /\ WF_vars(UpdaterErr)

----------------------------------------------------------------------------
(* Claims checked under Spec *)

Value(block, pair) == merge_int32_be(block[pair].v, block[pair + 1].v)

SameWords(command, state) ==
    /\ ir[state].v = hr[command].v
    /\ ir[state + 1].v = hr[command + 1].v
    /\ Value(ir, state) = Value(hr, command)

Mirrored ==
    /\ SameWords(SYSTEM_COMMAND, SYSTEM_STATE)
    /\ SameWords(P_COMMAND, P_MEASURED)
    /\ SameWords(Q_COMMAND, Q_MEASURED)

TickCompletes == pc = "L148" /\ pc' = "L154"

\* C1: the step that completes a tick leaves each state pair (system_state,
\* p_measured, q_measured) with the same two words, and so the same signed
\* 32-bit value, as its command pair, whatever the clients wrote before.
C1_MirrorAfterTick == [][TickCompletes => Mirrored']_vars

\* C1 witness: a tick has completed after a client wrote p_command = -1 and
\* system_command with the high bit set, and both are mirrored.
C1_Witness ==
    /\ pc = "L154"
    /\ hr[P_COMMAND].v = 65535 /\ hr[P_COMMAND + 1].v = 65535
    /\ ir[P_MEASURED].v = 65535 /\ ir[P_MEASURED + 1].v = 65535
    /\ Value(ir, P_MEASURED) = -1
    /\ hr[SYSTEM_COMMAND].v = 32768
    /\ Value(ir, SYSTEM_STATE) = Value(hr, SYSTEM_COMMAND)
    /\ Value(ir, SYSTEM_STATE) < 0

\* The statements of a tick that follow the write of p_measured.
AfterWriteP ==
    {"L124", "L125", "L126", "L130", "L131", "L132", "L144", "L148"}

C3_PairsUpdatedAtomically ==
    /\ \A b \in HoldingPairs : hr[b].id = hr[b + 1].id
    /\ \A b \in InputPairs : ir[b].id = ir[b + 1].id

\* C5 (as claimed): before the first tick and any request, soc decodes to
\* 5000 (high word at 0x2504) and every other declared value to 0.
C5_InitialValues ==
    (ticks = 0 /\ nreq = 0) =>
        /\ Value(ir, SOC) = 5000
        /\ \A b \in HoldingPairs : Value(hr, b) = 0
        /\ \A b \in InputPairs \ {SOC} : Value(ir, b) = 0

----------------------------------------------------------------------------
(* Claims checked under SpecLong *)

\* C4: once a tick has completed, the soc pair of the input bank (0x2504
\* high word, 0x2505 low word) decodes to a value in [1000, 9500]; the
\* loop's soc_value is in that range in every state.
C4_SocBounds ==
    /\ soc_value >= 1000 /\ soc_value <= 9500
    /\ ticks >= 1 => (Value(ir, SOC) >= 1000 /\ Value(ir, SOC) <= 9500)

\* C4 witness: a completed tick in the decreasing half left soc at the lower
\* limit, in the variable and in the registers, after a client request.
C4_Witness ==
    /\ pc = "L154"
    /\ now < 30
    /\ nreq >= 1
    /\ soc_value = 1000
    /\ ir[SOC].v = 0 /\ ir[SOC + 1].v = 1000

----------------------------------------------------------------------------
(* Claims checked under SpecClock *)

\* C6 (as claimed): with no client, soc after tick k is 5000 - k for
\* 1 <= k <= 30 and 4970 + (k - 30) for 30 < k <= 60, the direction being a
\* function of the tick count.
C6_DirectionByTickCount ==
    (pc = "L154" /\ ticks >= 1 /\ ticks <= 60) =>
        soc_value = IF ticks <= 30 THEN 5000 - ticks ELSE 4970 + (ticks - 30)

\* The second of the minute at which the first tick of this run read the
\* clock, the clock having advanced one second per tick.
FirstTickPhase == (now + Cycle - ((ticks - 1) % Cycle)) % Cycle

\* C6 (amended): with no client and the clock advancing one second per tick,
\* a run whose first tick reads the clock at second 0 of the minute has soc
\* 5000 - k after tick k for 1 <= k <= 30 and 4970 + (k - 30) for
\* 30 < k <= 60: the direction follows the second of the minute.
C6_DirectionByClock ==
    (pc = "L154" /\ ticks >= 1 /\ ticks <= 60 /\ FirstTickPhase = 0) =>
        /\ soc_value = IF ticks <= 30 THEN 5000 - ticks
                                      ELSE 4970 + (ticks - 30)
        /\ Value(ir, SOC) = soc_value

\* C6 witness: sixty ticks from second 0: thirty down, thirty up.
C6_Witness ==
    /\ pc = "L154"
    /\ ticks = 60
    /\ FirstTickPhase = 0
    /\ soc_value = 5000

----------------------------------------------------------------------------
(* Claims checked under SpecWd *)

\* C7: a warning is logged by a tick exactly when the tick read the watchdog
\* pair as zero and is at least the 11th consecutive tick to do so: none in
\* the first 10 ticks of a run of zero reads, one at the 11th and at every
\* further one, none at a tick that reads a nonzero watchdog.
C7_WarningFromEleventhZeroTick ==
    warning <=> history.zero_run >= 11

\* C7 witness: the 11th consecutive zero tick has logged the warning, in a
\* run that began after a tick read a nonzero watchdog.
C7_Witness ==
    /\ pc = "L154"
    /\ history.zero_run = 11
    /\ warning
    /\ ticks > 11

\* C8 (as claimed): when more than 10 consecutive ticks have run with no
\* client write to the watchdog pair, a timeout warning has been logged,
\* whatever the value last written.
C8_WarningWhenNotRefreshed ==
    (pc = "L154" /\ history.unrefreshed > 10) => warning

----------------------------------------------------------------------------
(* Claims checked under SpecAddr *)

\* The addresses the register table declares for the bank of a request.
TableAddresses(fc) ==
    UNION {{b, b + 1} : b \in IF fc = 4 THEN InputPairs ELSE HoldingPairs}

Undeclared(r) ==
    \E a \in r.address .. (r.address + r.count - 1) :
        a \notin TableAddresses(r.fc)

\* C9 (as claimed): a request that touches an address its bank does not
\* declare in the register table is answered with illegal data address.
C9_UndeclaredRejected ==
    (nreq >= 1 /\ Undeclared(req)) => resp = IllegalAddress

----------------------------------------------------------------------------
(* Claims checked under SpecCodec *)

\* C10: merge_int32_be of the two words of split_int32_be(v) is v, and both
\* words are in 0..0xFFFF, for v down to INT32_MIN and up to INT32_MAX.
C10_RoundTrip ==
    /\ codec.step # "value" =>
          /\ codec.words[1] >= 0 /\ codec.words[1] <= 65535
          /\ codec.words[2] >= 0 /\ codec.words[2] <= 65535
    /\ codec.step = "merged" => codec.result = codec.v

\* C10 witness: INT32_MIN has gone through split and merge.
C10_Witness ==
    /\ codec.step = "merged"
    /\ codec.v = MinInt32
    /\ codec.words = <<32768, 0>>
    /\ codec.result = MinInt32

----------------------------------------------------------------------------
\* C11 as stated: the register writes that completed before the error are
\* the only effects of a failed tick, so when the except clause is reached
\* soc_value and watchdog_timeout are what they were when the tick started.
C11_OnlyRegisterEffects == pc = "L152" => LoopState = history.start

\* What the statements of lines 132-147 may have done to soc_value and
\* watchdog_timeout before the error.
CompletedUpdates ==
    /\ soc_value \in {history.start.soc,
                       IF now < 30
                       THEN (IF history.start.soc > 1000
                             THEN history.start.soc - 1 ELSE 1000)
                       ELSE (IF history.start.soc < 9500
                             THEN history.start.soc + 1 ELSE 9500)}
    /\ watchdog_timeout \in {history.start.wd, history.start.wd + 1, 0}
    /\ soc_value # history.start.soc =>
           watchdog_timeout \in {history.start.wd + 1, 0}

\* C11 (amended): an error raised by a statement of a tick never ends the
\* loop: the raise and the except clause change no register and neither
\* soc_value nor watchdog_timeout, so the register writes and the updates of
\* soc_value and watchdog_timeout completed before the error are the only
\* effects of the failed tick, and after a failed tick the next tick starts.
C11_LoopSurvivesError ==
    /\ [](pc = "L152" => CompletedUpdates)
    /\ [][(pc' = "L152" \/ pc = "L152") =>
             UNCHANGED <<hr, ir, soc_value, watchdog_timeout>>]_vars
    /\ [](pc \in {"L152", "L154"} \/ pc \in DatastoreCalls
                                   \/ pc \in {"L132", "L144"})
    /\ (pc = "L152") ~> (pc = "L112")

\* A tick failed at line 148, after soc_value was stepped, and the tick after
\* it completed: two soc steps, one completed tick.
C11_Witness ==
    /\ pc = "L154"
    /\ history.errors = 1
    /\ ticks = 1
    /\ soc_value = 4998

----------------------------------------------------------------------------
\* The two words stored at a pair of a bank.
Words(block, pair) == <<block[pair].v, block[pair + 1].v>>

\* C12: a value written by a client to a command pair is read back
\* unchanged after any number of ticks: as long as a two-register write to
\* a pair of the holding bank is the last request served, the pair holds
\* the words written and they decode to the value written; a read of a pair
\* returns the words the pair holds; no step of the updater changes a
\* holding register.
C12_HoldingUnchangedByTicks ==
    /\ [](\A p \in HoldingPairs :
            (req.fc = 16 /\ req.address = p /\ req.count = 2) =>
                /\ Words(hr, p) = req.values
                /\ Value(hr, p) = merge_int32_be(req.values[1], req.values[2])
                /\ split_int32_be(Value(hr, p)) = req.values)
    /\ [](\A p \in HoldingPairs :
            (req.fc = 3 /\ req.address = p /\ req.count = 2) =>
                resp = Ok(Words(hr, p)))
    /\ [][pc' # pc => hr' = hr]_vars
    /\ [][hr' # hr => nreq' = nreq + 1 /\ req'.fc \in {6, 16}]_vars

\* The first request wrote -1 to system_command (0xd002, 0xd003), a tick
\* read the written registers, and the second request reads -1 back.
C12_Witness ==
    /\ nreq = 2
    /\ req = ReadHolding(SYSTEM_COMMAND, 2)
    /\ resp = Ok(<<65535, 65535>>)
    /\ hr[SYSTEM_COMMAND].id = 1
    /\ local.cmd_lo.id = 1
    /\ Value(hr, SYSTEM_COMMAND) = -1

----------------------------------------------------------------------------
\* C13: the watchdog counter equals the number of latest consecutive ticks
\* that read the watchdog pair as zero: the check of a tick that read a
\* nonzero pair sets it to 0, the check of a tick that read zero adds
\* exactly 1, and no other step, a client request included, changes it.
C13_CounterIsZeroRun ==
    /\ [](watchdog_timeout = history.zero_run)
    /\ [][(pc = "L132" /\ pc' = "L144") =>
             watchdog_timeout' =
                 IF Words(hr, WATCHDOG) = <<0, 0>>
                 THEN watchdog_timeout + 1 ELSE 0]_vars
    /\ [][~(pc = "L132" /\ pc' = "L144") =>
             watchdog_timeout' = watchdog_timeout]_vars

\* Three ticks: the first read zero, the second read the nonzero watchdog
\* a client wrote, the third read the zero a client wrote back.
C13_Witness ==
    /\ pc = "L154"
    /\ ticks = 3
    /\ nreq = 2
    /\ watchdog_timeout = 1
    /\ Words(hr, WATCHDOG) = <<0, 0>>

----------------------------------------------------------------------------
\* The soc after a tick at second t of the minute that found it at soc.
SocStep(soc, t) ==
    LET next == IF t < 30 THEN soc - 1 ELSE soc + 1
    IN  IF next >= 1000 /\ next <= 9500 THEN next ELSE soc

\* C14: the watchdog timeout is advisory only: what a tick writes is
\* determined by the holding registers, the soc value and the second of the
\* minute alone, whether or not the counter is above the threshold: the soc
\* value steps as SocStep says, the step that completes a tick leaves the
\* three state pairs equal to the command pairs and the soc pair equal to
\* the words of the soc value, and no holding register changes; while the
\* warning is raised the updater still has a next step.
C14_TimeoutIsAdvisory ==
    /\ [][(pc = "L144" /\ pc' = "L148") =>
             soc_value' = SocStep(soc_value, now)]_vars
    /\ [][TickCompletes =>
             /\ Words(ir', SYSTEM_STATE) = Words(hr, SYSTEM_COMMAND)
             /\ Words(ir', P_MEASURED) = Words(hr, P_COMMAND)
             /\ Words(ir', Q_MEASURED) = Words(hr, Q_COMMAND)
             /\ Words(ir', SOC) = <<(soc_value \div 65536) % 65536,
                                    soc_value % 65536>>
             /\ hr' = hr /\ soc_value' = soc_value]_vars
    /\ []((warning /\ ticks < MaxTicksWd) =>
             ENABLED (Tick \/ Sleep({1}, MaxTicksWd)))

\* The twelfth tick, the second one to raise the warning, has mirrored the
\* p_command -1 a client wrote and stepped the soc as the eleven before it.
C14_Witness ==
    /\ pc = "L154"
    /\ warning
    /\ watchdog_timeout = 12
    /\ ticks = 12
    /\ Value(ir, P_MEASURED) = -1
    /\ soc_value = 4988
    /\ Words(ir, SOC) = <<0, 4988>>

----------------------------------------------------------------------------
\* C15: a tick changes the soc by at most 1 in absolute value: once the
\* tick has stepped it, the soc is the soc the tick started with plus or
\* minus 1 when that lies in [1000, 9500], and the soc the tick started
\* with when the step would leave the range; it is the same when the tick
\* completes.
C15_SocStepAtMostOne ==
    /\ [](soc_value - history.start.soc \in {-1, 0, 1})
    /\ [](pc = "L148" =>
            LET old == history.start.soc
                up == now >= 30
            IN  /\ (~up /\ old > 1000) => soc_value = old - 1
                /\ (~up /\ old = 1000) => soc_value = 1000
                /\ (up /\ old < 9500) => soc_value = old + 1
                /\ (up /\ old = 9500) => soc_value = 9500)
    /\ [][TickCompletes => soc_value' = soc_value]_vars

\* A tick in the increasing half of the minute that started at 9500 and has
\* left the soc there.
C15_Witness ==
    /\ pc = "L148"
    /\ now >= 30
    /\ history.start.soc = 9500
    /\ soc_value = 9500

----------------------------------------------------------------------------
\* A command pair holds the words w and its state pair does not.
Pending(command, state, w) ==
    Words(hr, command) = w /\ Words(ir, state) # w

\* The state pair holds the words w, or the command pair no longer does.
Settled(command, state, w) ==
    Words(ir, state) = w \/ Words(hr, command) # w

\* C16: the loop ticks whatever the clients do: whenever a command pair
\* holds words a client wrote and a tick is still to come, the state pair
\* eventually holds the same words (and decodes to the same value) unless a
\* client changes the command pair again, and it holds them at the latest
\* when the next tick completes.
C16_CommandEventuallyMirrored ==
    /\ \A w \in CommandWords :
          /\ (Pending(SYSTEM_COMMAND, SYSTEM_STATE, w) /\ ticks < MaxTicksFair)
                 ~> Settled(SYSTEM_COMMAND, SYSTEM_STATE, w)
          /\ (Pending(P_COMMAND, P_MEASURED, w) /\ ticks < MaxTicksFair)
                 ~> Settled(P_COMMAND, P_MEASURED, w)
          /\ (Pending(Q_COMMAND, Q_MEASURED, w) /\ ticks < MaxTicksFair)
                 ~> Settled(Q_COMMAND, Q_MEASURED, w)
    /\ [][TickCompletes =>
             /\ Value(ir', SYSTEM_STATE) = Value(hr, SYSTEM_COMMAND)
             /\ Value(ir', P_MEASURED) = Value(hr, P_COMMAND)
             /\ Value(ir', Q_MEASURED) = Value(hr, Q_COMMAND)]_vars

\* A client wrote -2147483647 to q_command, no request followed, and the
\* next tick has brought it to q_measured.
C16_Witness ==
    /\ pc = "L154"
    /\ nreq = 1
    /\ req = WriteMultiple(Q_COMMAND, <<32768, 1>>)
    /\ ticks = 2
    /\ Value(ir, Q_MEASURED) = -2147483647

----------------------------------------------------------------------------
\* C17: the soc belongs to the loop and the banks are separate: no client
\* request, a write to the holding bank at any address included, changes an
\* input register or soc_value, and from the first completed tick on the
\* input pair (0x2504, 0x2505) holds split_int32_be(soc_value) whenever the
\* updater is between two ticks.
C17_SocOwnedByLoop ==
    /\ [][nreq' # nreq => (ir' = ir /\ soc_value' = soc_value)]_vars
    /\ [][TickCompletes => Words(ir', SOC) = split_int32_be(soc_value')]_vars
    /\ []((pc = "L154" /\ ticks >= 1) =>
             Words(ir, SOC) = split_int32_be(soc_value))

\* After the first tick a client wrote the holding registers at the soc
\* addresses: the write was accepted and stored in the holding bank, and
\* the input pair still holds the loop's soc.
C17_Witness ==
    /\ pc = "L154"
    /\ ticks = 1
    /\ req = WriteMultiple(SOC, <<1, 2>>)
    /\ resp = Ok(<<1, 2>>)
    /\ Words(hr, SOC) = <<1, 2>>
    /\ soc_value = 4999
    /\ Words(ir, SOC) = <<0, 4999>>

----------------------------------------------------------------------------
\* C18: for words hi and lo, merge_int32_be(hi, lo) is hi * 65536 + lo when
\* that is at most 0x7FFFFFFF (hi below 0x8000) and hi * 65536 + lo - 2^32
\* otherwise (stated 2^31 higher on both sides, within 32-bit integers), so
\* it lies in [-2^31, 2^31 - 1]; merge(0xFFFF, 0xFFFF) = -1 and
\* merge(0, 0xFFFF) = 65535; split_int32_be of the result gives back
\* <<hi, lo>>.
C18_MergeThenSplit ==
    LET hi == codec.words[1]
        lo == codec.words[2]
        r  == codec.result
    IN  /\ codec.step \in {"merged", "split"} =>
              /\ r >= MinInt32 /\ r <= MaxInt32
              /\ hi < 32768 => r = hi * 65536 + lo
              /\ hi >= 32768 =>
                    (r < 0 /\ (r + MaxInt32) + 1 = (hi - 32768) * 65536 + lo)
              /\ (hi = 65535 /\ lo = 65535) => r = -1
              /\ (hi = 0 /\ lo = 65535) => r = 65535
        /\ codec.step = "split" => codec.back = <<hi, lo>>

\* 0xFFFF, 0xFFFF merged to -1 and split back.
C18_Witness ==
    /\ codec.step = "split"
    /\ codec.words = <<65535, 65535>>
    /\ codec.result = -1
    /\ codec.back = <<65535, 65535>>

====
